---- MODULE Spec2Model ----
(***************************************************************************)
(* A model of emacsctl's application state (state/state.go) and of the     *)
(* resolution done by the `open` handler (app/app.go).                     *)
(*                                                                         *)
(*   Spec      the State object as a library: starting from state.New(),   *)
(*             a client calls the State methods and assigns Context.       *)
(*   SpecOpen  the `open` and `environment list` handlers run against a    *)
(*             state file holding any document state.Load can decode.      *)
(*   SpecRoundTrip  state.Save and state.Load of the States the methods    *)
(*             produce.                                                    *)
(*   SpecCLI   the handlers that write the state file and the cache,       *)
(*             invoked one after another from a first run on.              *)
(*   SpecAddRemove  Spec without the assignment of Context.                *)
(*   SpecRace  two invocations whose loads and Save steps interleave on    *)
(*             one state file.                                             *)
(***************************************************************************)
EXTENDS Integers, Sequences, FiniteSets, TLC

VARIABLES appState,   \* the *State the library client holds
          stateFile,  \* the state file at config.StatePath()
          cache,      \* the names that have a directory under config.CachePath()
          ret         \* the last call: operation, arguments, State it acted on, results

vars == <<appState, stateFile, cache, ret>>

----------------------------------------------------------------------------
(* Bounds and input domains *)

\* longest BinArgs (fixed arguments after the binary path) a command is given
MaxArgs == 2

\* the names used as Command, Configuration and Environment keys
Names == {"default", "work"}

\* the fixed arguments commands are given: a prefix of this list
ArgList == <<"-nw", "-Q", "--debug-init", "--no-splash">>
BinPaths == {"emacs"}
Paths == {"/cfg/work"}
Descriptions == {"d"}

\* the FILES given to `open`
FileArgs == {<<>>, <<"a.txt", "b.txt">>}

ArgSeqs == {SubSeq(ArgList, 1, n) : n \in 0..MaxArgs}

\* a non-empty command line: the binary path followed by its arguments
CommandLines == {<<b>> \o a : b \in BinPaths, a \in ArgSeqs}

----------------------------------------------------------------------------
(* Go maps *)

MapPut(m, k, v) == [x \in (DOMAIN m) \cup {k} |-> IF x = k THEN v ELSE m[x]]

MapDelete(m, k) == [x \in (DOMAIN m) \ {k} |-> m[x]]

PartialMaps(K, V) == UNION {[D -> V] : D \in SUBSET K}

----------------------------------------------------------------------------
(* errors *)

NoError == [type |-> "nil", Name |-> ""]

CommandExistsError(n) == [type |-> "CommandExistsError", Name |-> n]

CommandNotFoundError(n) == [type |-> "CommandNotFoundError", Name |-> n]

ConfigExistsError(n) == [type |-> "ConfigExistsError", Name |-> n]

ConfigNotFoundError(n) == [type |-> "ConfigNotFoundError", Name |-> n]

EnvironmentExistsError(n) == [type |-> "EnvironmentExistsError", Name |-> n]

EnvironmentNotFoundError(n) == [type |-> "EnvironmentNotFoundError", Name |-> n]

NoContextError == [type |-> "NoContextError", Name |-> ""]

\* json.Decoder.Decode failing on a malformed state file
DecodeError == [type |-> "DecodeError", Name |-> ""]

UnexpectedNumArgsError(expected, received) ==
    [type |-> "UnexpectedNumArgsError", Name |-> "", Expected |-> expected,
     Received |-> received]

MinimumNumArgsError(minimum, received) ==
    [type |-> "MinimumNumArgsError", Name |-> "", Minimum |-> minimum, Received |-> received]

\* git clone (or the EnsureDir before it) failing in cache.AddRepo
CloneError == [type |-> "CloneError", Name |-> ""]

\* os.RemoveAll failing in cache.RemoveRepo
RemoveRepoError == [type |-> "RemoveRepoError", Name |-> ""]

\* os.MkdirAll, os.Create or File.Write failing in Save
SaveError == [type |-> "SaveError", Name |-> ""]

\* exec.Cmd.Run failing (binary not found, non-zero exit)
ExecError == [type |-> "ExecError", Name |-> ""]

----------------------------------------------------------------------------
(* state.go *)

DefaultEmacsCommandLine == "emacs"

DefaultEmacsConfigDir == "~/.emacs.d"

EmacsCommand(binPath, binArgs, description) ==
    [BinPath |-> binPath, BinArgs |-> binArgs, Description |-> description]

EmacsConfig(initDir, description) ==
    [InitDir |-> initDir, Description |-> description]

Environment(commandName, configName, description) ==
    [CommandName |-> commandName, ConfigName |-> configName, Description |-> description]

\* a variant that puts the flag before the command's own arguments
CommandLine_FlagFirst(c, initDir) ==
    (<<c.BinPath>> \o <<"--init-directory", initDir>>) \o c.BinArgs

CommandLine(c, initDir) == (<<c.BinPath>> \o c.BinArgs) \o <<"--init-directory", initDir>>

\* a variant that starts empty, as the function's comment says
New_Empty ==
    [Commands |-> [n \in {} |-> EmacsCommand("", <<>>, "")],
     Configs |-> [n \in {} |-> EmacsConfig("", "")],
     Environments |-> [n \in {} |-> Environment("", "", "")],
     Context |-> ""]

New ==
    [Commands |-> [n \in {"default"} |->
                      EmacsCommand(DefaultEmacsCommandLine, <<>>, "Default emacs application")],
     Configs |-> [n \in {"default"} |->
                      EmacsConfig(DefaultEmacsConfigDir, "Default emacs configuration")],
     Environments |-> [n \in {"default"} |->
                      Environment("default", "default", "default emacs environment")],
     Context |-> "default"]

CommandExists(s, name) == name \in DOMAIN s.Commands

ConfigExists(s, name) == name \in DOMAIN s.Configs

EnvironmentExists(s, name) == name \in DOMAIN s.Environments

\* a variant that makes the name of the new command the active context
AddCommand_Activate(s, name, commandLine, description) ==
    IF name \in DOMAIN s.Commands
    THEN [err |-> CommandExistsError(name), state |-> s]
    ELSE [err |-> NoError,
          state |-> [s EXCEPT !.Commands =
                        MapPut(@, name, EmacsCommand(Head(commandLine), Tail(commandLine),
                                                     description)),
                              !.Context = name]]

\* a variant that overwrites instead of refusing an existing name
AddCommand_Overwrite(s, name, commandLine, description) ==
    [err |-> NoError,
     state |-> [s EXCEPT !.Commands =
                   MapPut(@, name, EmacsCommand(Head(commandLine), Tail(commandLine),
                                                description))]]

AddCommand(s, name, commandLine, description) ==
    IF name \in DOMAIN s.Commands
    THEN [err |-> CommandExistsError(name), state |-> s]
    ELSE [err |-> NoError,
          state |-> [s EXCEPT !.Commands =
                        MapPut(@, name, EmacsCommand(Head(commandLine), Tail(commandLine),
                                                     description))]]

\* as written: the lookup and the delete are on s.Configs
RemoveCommand(s, name) ==
    IF name \notin DOMAIN s.Configs
    THEN [err |-> CommandNotFoundError(name), state |-> s]
    ELSE [err |-> NoError,
          state |-> [s EXCEPT !.Configs = MapDelete(@, name), !.Context = ""]]

\* a variant that does not activate the new configuration
AddConfig_NoActivate(s, name, path, description) ==
    IF name \in DOMAIN s.Configs
    THEN [err |-> ConfigExistsError(name), state |-> s]
    ELSE [err |-> NoError,
          state |-> [s EXCEPT !.Configs = MapPut(@, name, EmacsConfig(path, description))]]

AddConfig(s, name, path, description) ==
    IF name \in DOMAIN s.Configs
    THEN [err |-> ConfigExistsError(name), state |-> s]
    ELSE [err |-> NoError,
          state |-> [s EXCEPT !.Configs = MapPut(@, name, EmacsConfig(path, description)),
                              !.Context = name]]

\* a variant that clears the context only when the active environment uses the configuration
RemoveConfig_ClearIfReferenced(s, name) ==
    IF name \notin DOMAIN s.Configs
    THEN [err |-> ConfigNotFoundError(name), state |-> s]
    ELSE [err |-> NoError,
          state |-> [s EXCEPT !.Configs = MapDelete(@, name),
                              !.Context = IF /\ @ \in DOMAIN s.Environments
                                             /\ s.Environments[@].ConfigName # name
                                          THEN @ ELSE ""]]

RemoveConfig(s, name) ==
    IF name \notin DOMAIN s.Configs
    THEN [err |-> ConfigNotFoundError(name), state |-> s]
    ELSE [err |-> NoError,
          state |-> [s EXCEPT !.Configs = MapDelete(@, name), !.Context = ""]]

\* as written: the Commands and Configs lookups are on name, not on command and config
AddEnvironment(s, name, command, config, description) ==
    IF name \in DOMAIN s.Environments
    THEN [err |-> EnvironmentExistsError(name), state |-> s]
    ELSE IF name \notin DOMAIN s.Commands
    THEN [err |-> CommandNotFoundError(name), state |-> s]
    ELSE IF name \notin DOMAIN s.Configs
    THEN [err |-> ConfigNotFoundError(name), state |-> s]
    ELSE [err |-> NoError,
          state |-> [s EXCEPT !.Environments =
                                  MapPut(@, name, Environment(command, config, description)),
                              !.Context = name]]

\* a variant that clears the context only when it names the removed environment
RemoveEnvironment_ClearIfActive(s, name) ==
    IF name \notin DOMAIN s.Environments
    THEN [err |-> EnvironmentNotFoundError(name), state |-> s]
    ELSE [err |-> NoError,
          state |-> [s EXCEPT !.Environments = MapDelete(@, name),
                              !.Context = IF @ = name THEN "" ELSE @]]

RemoveEnvironment(s, name) ==
    IF name \notin DOMAIN s.Environments
    THEN [err |-> EnvironmentNotFoundError(name), state |-> s]
    ELSE [err |-> NoError,
          state |-> [s EXCEPT !.Environments = MapDelete(@, name), !.Context = ""]]

----------------------------------------------------------------------------
(* the state file: json.MarshalIndent / json.Decoder over the struct tags *)

\* a string that is not valid UTF-8: "caf" followed by the single byte 0xE9
InvalidUTF8 == "caf<E9>"

\* encoding/json writes a string coerced to valid UTF-8: each invalid byte becomes U+FFFD
ToValidUTF8(str) == IF str = InvalidUTF8 THEN "caf<U+FFFD>" ELSE str

\* a map is written with its keys coerced too (the keys of this model never collide)
EncodeKeys(m) == {ToValidUTF8(n) : n \in DOMAIN m}

KeyOf(m, k) == CHOOSE n \in DOMAIN m : ToValidUTF8(n) = k

EncodeState(s) ==
    [commands |-> [k \in EncodeKeys(s.Commands) |->
                      LET c == s.Commands[KeyOf(s.Commands, k)] IN
                      [bin_path |-> ToValidUTF8(c.BinPath),
                       bin_args |-> [i \in DOMAIN c.BinArgs |-> ToValidUTF8(c.BinArgs[i])],
                       description |-> ToValidUTF8(c.Description)]],
     configs |-> [k \in EncodeKeys(s.Configs) |->
                      LET c == s.Configs[KeyOf(s.Configs, k)] IN
                      [init_dir |-> ToValidUTF8(c.InitDir),
                       description |-> ToValidUTF8(c.Description)]],
     environments |-> [k \in EncodeKeys(s.Environments) |->
                      LET e == s.Environments[KeyOf(s.Environments, k)] IN
                      [command_name |-> ToValidUTF8(e.CommandName),
                       config_name |-> ToValidUTF8(e.ConfigName),
                       description |-> ToValidUTF8(e.Description)]],
     context |-> ToValidUTF8(s.Context)]

\* a variant whose decoder does not find the bin_args key and leaves BinArgs unset
DecodeState_ArgsTagMismatch(d) ==
    [Commands |-> [n \in DOMAIN d.commands |->
                      EmacsCommand(d.commands[n].bin_path, <<>>,
                                   d.commands[n].description)],
     Configs |-> [n \in DOMAIN d.configs |->
                      EmacsConfig(d.configs[n].init_dir, d.configs[n].description)],
     Environments |-> [n \in DOMAIN d.environments |->
                      Environment(d.environments[n].command_name,
                                  d.environments[n].config_name,
                                  d.environments[n].description)],
     Context |-> d.context]

DecodeState(d) ==
    [Commands |-> [n \in DOMAIN d.commands |->
                      EmacsCommand(d.commands[n].bin_path, d.commands[n].bin_args,
                                   d.commands[n].description)],
     Configs |-> [n \in DOMAIN d.configs |->
                      EmacsConfig(d.configs[n].init_dir, d.configs[n].description)],
     Environments |-> [n \in DOMAIN d.environments |->
                      Environment(d.environments[n].command_name,
                                  d.environments[n].config_name,
                                  d.environments[n].description)],
     Context |-> d.context]

\* no file at the path
NoFile == [exists |-> FALSE, valid |-> FALSE, doc |-> EncodeState(New)]

\* a file whose content is not a JSON document of the State
MalformedFile == [exists |-> TRUE, valid |-> FALSE, doc |-> EncodeState(New)]

FileOf(s) == [exists |-> TRUE, valid |-> TRUE, doc |-> EncodeState(s)]

Load(file) ==
    IF ~file.exists THEN [err |-> NoError, state |-> New]
    ELSE IF ~file.valid THEN [err |-> DecodeError, state |-> New]
    ELSE [err |-> NoError, state |-> DecodeState(file.doc)]

\* Save: outcome "ok"; "nocreate" when EnsureDir or os.Create fails, which leaves the
\* file as it was; "nowrite" when the Write after os.Create fails, which leaves it truncated
SaveOutcomes == {"ok", "nocreate", "nowrite"}

Save(state, file, outcome) ==
    IF outcome = "ok" THEN [err |-> NoError, file |-> FileOf(state)]
    ELSE IF outcome = "nocreate" THEN [err |-> SaveError, file |-> file]
    ELSE [err |-> SaveError, file |-> MalformedFile]

----------------------------------------------------------------------------
(* app.go: the `open` handler *)

RECURSIVE Join(_, _)
\* strings.Join
Join(elems, sep) ==
    IF elems = <<>> THEN ""
    ELSE IF Len(elems) = 1 THEN elems[1]
    ELSE (elems[1] \o sep) \o Join(Tail(elems), sep)

\* a variant that lets a stored context win over --context
openEmacs_StoredFirst(file, context, dryRun, runOk) ==
    LET l == Load(file)
        appSt == l.state
        ctx == IF appSt.Context = "" THEN context ELSE appSt.Context
        none == [err |-> NoError, appState |-> appSt, file |-> file, cmdLine |-> <<>>,
                 printed |-> <<>>, launched |-> <<>>]
    IN  IF l.err # NoError THEN [none EXCEPT !.err = l.err]
        ELSE IF ctx = "" THEN [none EXCEPT !.err = NoContextError]
        ELSE IF ctx \notin DOMAIN appSt.Environments
        THEN [none EXCEPT !.err = EnvironmentNotFoundError(ctx)]
        ELSE LET env == appSt.Environments[ctx] IN
        IF env.CommandName \notin DOMAIN appSt.Commands
        THEN [none EXCEPT !.err = CommandNotFoundError(env.CommandName)]
        ELSE IF env.ConfigName \notin DOMAIN appSt.Configs
        THEN [none EXCEPT !.err = ConfigNotFoundError(env.ConfigName)]
        ELSE LET cmdLine == CommandLine(appSt.Commands[env.CommandName],
                                        appSt.Configs[env.ConfigName].InitDir) IN
        IF dryRun
        THEN [none EXCEPT !.cmdLine = cmdLine, !.printed = <<Join(cmdLine, " ")>>]
        ELSE [none EXCEPT !.cmdLine = cmdLine, !.launched = <<cmdLine>>,
                          !.err = IF runOk THEN NoError ELSE ExecError]

\* a variant that looks the configuration up before the command
openEmacs_ConfigFirst(file, context, dryRun, runOk) ==
    LET l == Load(file)
        appSt == l.state
        ctx == IF context = "" THEN appSt.Context ELSE context
        none == [err |-> NoError, appState |-> appSt, file |-> file, cmdLine |-> <<>>,
                 printed |-> <<>>, launched |-> <<>>]
    IN  IF l.err # NoError THEN [none EXCEPT !.err = l.err]
        ELSE IF ctx = "" THEN [none EXCEPT !.err = NoContextError]
        ELSE IF ctx \notin DOMAIN appSt.Environments
        THEN [none EXCEPT !.err = EnvironmentNotFoundError(ctx)]
        ELSE LET env == appSt.Environments[ctx] IN
        IF env.ConfigName \notin DOMAIN appSt.Configs
        THEN [none EXCEPT !.err = ConfigNotFoundError(env.ConfigName)]
        ELSE IF env.CommandName \notin DOMAIN appSt.Commands
        THEN [none EXCEPT !.err = CommandNotFoundError(env.CommandName)]
        ELSE LET cmdLine == CommandLine(appSt.Commands[env.CommandName],
                                        appSt.Configs[env.ConfigName].InitDir) IN
        IF dryRun
        THEN [none EXCEPT !.cmdLine = cmdLine, !.printed = <<Join(cmdLine, " ")>>]
        ELSE [none EXCEPT !.cmdLine = cmdLine, !.launched = <<cmdLine>>,
                          !.err = IF runOk THEN NoError ELSE ExecError]

\* a variant that stores the context it resolved
openEmacs_SavesContext(file, context, dryRun, runOk) ==
    LET l == Load(file)
        appSt == l.state
        ctx == IF context = "" THEN appSt.Context ELSE context
        none == [err |-> NoError, appState |-> appSt, file |-> file, cmdLine |-> <<>>,
                 printed |-> <<>>, launched |-> <<>>]
    IN  IF l.err # NoError THEN [none EXCEPT !.err = l.err]
        ELSE IF ctx = "" THEN [none EXCEPT !.err = NoContextError]
        ELSE IF ctx \notin DOMAIN appSt.Environments
        THEN [none EXCEPT !.err = EnvironmentNotFoundError(ctx)]
        ELSE LET env == appSt.Environments[ctx] IN
        IF env.CommandName \notin DOMAIN appSt.Commands
        THEN [none EXCEPT !.err = CommandNotFoundError(env.CommandName)]
        ELSE IF env.ConfigName \notin DOMAIN appSt.Configs
        THEN [none EXCEPT !.err = ConfigNotFoundError(env.ConfigName)]
        ELSE LET cmdLine == CommandLine(appSt.Commands[env.CommandName],
                                        appSt.Configs[env.ConfigName].InitDir)
                 saved == [exists |-> TRUE, valid |-> TRUE,
                           doc |-> EncodeState([appSt EXCEPT !.Context = ctx])] IN
        IF dryRun
        THEN [none EXCEPT !.cmdLine = cmdLine, !.printed = <<Join(cmdLine, " ")>>,
                          !.file = saved]
        ELSE [none EXCEPT !.cmdLine = cmdLine, !.launched = <<cmdLine>>, !.file = saved,
                          !.err = IF runOk THEN NoError ELSE ExecError]

\* context is config.Context (--context), dryRun is config.DryRun (--dry-run),
\* runOk is whether the launched process ends without error
\* a variant whose dry run prints and then launches all the same
openEmacs_DryRunLaunches(file, context, dryRun, runOk) ==
    LET l == Load(file)
        appSt == l.state
        ctx == IF context = "" THEN appSt.Context ELSE context
        none == [err |-> NoError, appState |-> appSt, file |-> file, cmdLine |-> <<>>,
                 printed |-> <<>>, launched |-> <<>>]
    IN  IF l.err # NoError THEN [none EXCEPT !.err = l.err]
        ELSE IF ctx = "" THEN [none EXCEPT !.err = NoContextError]
        ELSE IF ctx \notin DOMAIN appSt.Environments
        THEN [none EXCEPT !.err = EnvironmentNotFoundError(ctx)]
        ELSE LET env == appSt.Environments[ctx] IN
        IF env.CommandName \notin DOMAIN appSt.Commands
        THEN [none EXCEPT !.err = CommandNotFoundError(env.CommandName)]
        ELSE IF env.ConfigName \notin DOMAIN appSt.Configs
        THEN [none EXCEPT !.err = ConfigNotFoundError(env.ConfigName)]
        ELSE LET cmdLine == CommandLine(appSt.Commands[env.CommandName],
                                        appSt.Configs[env.ConfigName].InitDir) IN
        [none EXCEPT !.cmdLine = cmdLine, !.launched = <<cmdLine>>,
                     !.printed = IF dryRun THEN <<Join(cmdLine, " ")>> ELSE <<>>,
                     !.err = IF runOk THEN NoError ELSE ExecError]

openEmacs(file, context, dryRun, runOk) ==
    LET l == Load(file)
        appSt == l.state
        ctx == IF context = "" THEN appSt.Context ELSE context
        none == [err |-> NoError, appState |-> appSt, file |-> file, cmdLine |-> <<>>,
                 printed |-> <<>>, launched |-> <<>>]
    IN  IF l.err # NoError THEN [none EXCEPT !.err = l.err]
        ELSE IF ctx = "" THEN [none EXCEPT !.err = NoContextError]
        ELSE IF ctx \notin DOMAIN appSt.Environments
        THEN [none EXCEPT !.err = EnvironmentNotFoundError(ctx)]
        ELSE LET env == appSt.Environments[ctx] IN
        IF env.CommandName \notin DOMAIN appSt.Commands
        THEN [none EXCEPT !.err = CommandNotFoundError(env.CommandName)]
        ELSE IF env.ConfigName \notin DOMAIN appSt.Configs
        THEN [none EXCEPT !.err = ConfigNotFoundError(env.ConfigName)]
        ELSE LET cmdLine == CommandLine(appSt.Commands[env.CommandName],
                                        appSt.Configs[env.ConfigName].InitDir) IN
        IF dryRun
        THEN [none EXCEPT !.cmdLine = cmdLine, !.printed = <<Join(cmdLine, " ")>>]
        ELSE [none EXCEPT !.cmdLine = cmdLine, !.launched = <<cmdLine>>,
                          !.err = IF runOk THEN NoError ELSE ExecError]

----------------------------------------------------------------------------
(* app.go: `environment list` *)

\* the orders in which a range over a map with keys S can visit them
Orders(S) == {f \in [1..Cardinality(S) -> S] : \A i, j \in DOMAIN f : i # j => f[i] # f[j]}

\* order is the order in which the range over appState.Environments visits the names;
\* rows are the table rows printed under the header
listEnvironments(file, order) ==
    LET l == Load(file)
        appSt == l.state
    IN  IF l.err # NoError THEN [err |-> l.err, appState |-> appSt, file |-> file, rows |-> <<>>]
        ELSE IF Cardinality(DOMAIN appSt.Environments) = 0
        THEN [err |-> NoError, appState |-> appSt, file |-> file, rows |-> <<>>]
        ELSE [err |-> NoError, appState |-> appSt, file |-> file,
              rows |-> [i \in DOMAIN order |->
                           <<order[i], appSt.Environments[order[i]].CommandName,
                             appSt.Environments[order[i]].ConfigName,
                             appSt.Environments[order[i]].Description>>]]

----------------------------------------------------------------------------
(* util.go, config.go, cache.go *)

HasPrefix(str, prefix) ==
    Len(str) >= Len(prefix) /\ SubSeq(str, 1, Len(prefix)) = prefix

\* a variant that knows only the https form
IsGitURL_HttpsOnly(input) == HasPrefix(input, "https://")

IsGitURL(input) == HasPrefix(input, "git@") \/ HasPrefix(input, "https://")

\* config.CachePath() under the default application directory
CacheDir == "~/.config/emacsctl/cache"

\* filepath.Join(cacheDir, repoName)
RepoDir(cacheDir, repoName) == (cacheDir \o "/") \o repoName

IsCached(dirs, repoName) == repoName \in dirs

\* cloneOk is whether git clone succeeds; it cannot when the directory is already there
AddRepo(dirs, repoName, cloneOk) ==
    IF cloneOk /\ repoName \notin dirs
    THEN [err |-> NoError, path |-> RepoDir(CacheDir, repoName), cache |-> dirs \cup {repoName}]
    ELSE [err |-> CloneError, path |-> RepoDir(CacheDir, repoName), cache |-> dirs]

\* removeOk is whether os.RemoveAll succeeds
RemoveRepo(dirs, repoName, removeOk) ==
    IF removeOk THEN [err |-> NoError, cache |-> dirs \ {repoName}]
    ELSE [err |-> RemoveRepoError, cache |-> dirs]

----------------------------------------------------------------------------
(* app.go: the handlers that change the state file.  args are the positional        *)
(* arguments, dryRun is config.DryRun, saveOutcome is how a Save that is reached ends. *)

\* what a handler leaves behind: its error, the state file, the cache, and the State it
\* loaded
Outcome(err, file, dirs, loaded) ==
    [err |-> err, file |-> file, cache |-> dirs, appState |-> loaded]

\* `environment add NAME --command command --config config --description description`
addEnvironment(file, dirs, args, command, config, description, dryRun, saveOutcome) ==
    IF Len(args) # 1 THEN Outcome(UnexpectedNumArgsError(1, Len(args)), file, dirs, New)
    ELSE LET name == args[1]
             l == Load(file) IN
    IF l.err # NoError THEN Outcome(l.err, file, dirs, l.state)
    ELSE IF dryRun THEN Outcome(NoError, file, dirs, l.state)
    ELSE IF command \notin DOMAIN l.state.Commands
    THEN Outcome(CommandNotFoundError(command), file, dirs, l.state)
    ELSE IF config \notin DOMAIN l.state.Configs
    THEN Outcome(ConfigNotFoundError(config), file, dirs, l.state)
    ELSE LET desc == IF description = "" THEN "Not specified" ELSE description
             r == AddEnvironment(l.state, name, command, config, desc) IN
    IF r.err # NoError THEN Outcome(r.err, file, dirs, l.state)
    ELSE LET s == Save(r.state, file, saveOutcome) IN
    Outcome(s.err, s.file, dirs, l.state)

\* `environment remove NAME`
removeEnvironment(file, dirs, args, dryRun, saveOutcome) ==
    IF Len(args) # 1 THEN Outcome(UnexpectedNumArgsError(1, Len(args)), file, dirs, New)
    ELSE LET name == args[1]
             l == Load(file) IN
    IF l.err # NoError THEN Outcome(l.err, file, dirs, l.state)
    ELSE IF name \notin DOMAIN l.state.Environments
    THEN Outcome(EnvironmentNotFoundError(name), file, dirs, l.state)
    ELSE IF dryRun THEN Outcome(NoError, file, dirs, l.state)
    ELSE LET r == RemoveEnvironment(l.state, name) IN
    IF r.err # NoError THEN Outcome(r.err, file, dirs, l.state)
    ELSE LET s == Save(r.state, file, saveOutcome) IN
    Outcome(s.err, s.file, dirs, l.state)

\* addCommand, except that the State is saved whether or not AddCommand failed
addCommand_SaveOnError(file, dirs, args, description, dryRun, saveOutcome) ==
    IF Len(args) < 2 THEN Outcome(MinimumNumArgsError(2, Len(args)), file, dirs, New)
    ELSE LET name == args[1]
             command == Tail(args)
             l == Load(file) IN
    IF l.err # NoError THEN Outcome(l.err, file, dirs, l.state)
    ELSE IF dryRun THEN Outcome(NoError, file, dirs, l.state)
    ELSE LET r == AddCommand(l.state, name, command, description)
             s == Save(r.state, file, saveOutcome) IN
    IF r.err # NoError THEN Outcome(r.err, s.file, dirs, l.state)
    ELSE Outcome(s.err, s.file, dirs, l.state)

\* `command add NAME CMD_LINE... --description description`
addCommand(file, dirs, args, description, dryRun, saveOutcome) ==
    IF Len(args) < 2 THEN Outcome(MinimumNumArgsError(2, Len(args)), file, dirs, New)
    ELSE LET name == args[1]
             command == Tail(args)
             l == Load(file) IN
    IF l.err # NoError THEN Outcome(l.err, file, dirs, l.state)
    ELSE IF dryRun THEN Outcome(NoError, file, dirs, l.state)
    ELSE LET r == AddCommand(l.state, name, command, description) IN
    IF r.err # NoError THEN Outcome(r.err, file, dirs, l.state)
    ELSE LET s == Save(r.state, file, saveOutcome) IN
    Outcome(s.err, s.file, dirs, l.state)

\* `command remove NAME`
removeCommand(file, dirs, args, dryRun, saveOutcome) ==
    IF Len(args) # 1 THEN Outcome(UnexpectedNumArgsError(1, Len(args)), file, dirs, New)
    ELSE LET name == args[1]
             l == Load(file) IN
    IF l.err # NoError THEN Outcome(l.err, file, dirs, l.state)
    ELSE IF name \notin DOMAIN l.state.Commands
    THEN Outcome(CommandNotFoundError(name), file, dirs, l.state)
    ELSE IF dryRun THEN Outcome(NoError, file, dirs, l.state)
    ELSE LET r == RemoveCommand(l.state, name) IN
    IF r.err # NoError THEN Outcome(r.err, file, dirs, l.state)
    ELSE LET s == Save(r.state, file, saveOutcome) IN
    Outcome(s.err, s.file, dirs, l.state)

\* a variant that clones before it looks at config.DryRun
addConfig_ClonesBeforeDryRun(file, dirs, args, description, dryRun, cloneOk, saveOutcome) ==
    IF Len(args) # 2 THEN Outcome(UnexpectedNumArgsError(2, Len(args)), file, dirs, New)
    ELSE LET name == args[1]
             l == Load(file) IN
    IF l.err # NoError THEN Outcome(l.err, file, dirs, l.state)
    ELSE LET repo == IF IsGitURL(args[2]) THEN AddRepo(dirs, name, cloneOk)
                     ELSE [err |-> NoError, path |-> args[2], cache |-> dirs] IN
    IF repo.err # NoError THEN Outcome(repo.err, file, repo.cache, l.state)
    ELSE IF dryRun THEN Outcome(NoError, file, repo.cache, l.state)
    ELSE LET r == AddConfig(l.state, name, repo.path, description) IN
    IF r.err # NoError THEN Outcome(r.err, file, repo.cache, l.state)
    ELSE LET s == Save(r.state, file, saveOutcome) IN
    Outcome(s.err, s.file, repo.cache, l.state)

\* `config add NAME DIR_PATH --description description`
addConfig(file, dirs, args, description, dryRun, cloneOk, saveOutcome) ==
    IF Len(args) # 2 THEN Outcome(UnexpectedNumArgsError(2, Len(args)), file, dirs, New)
    ELSE LET name == args[1]
             l == Load(file) IN
    IF l.err # NoError THEN Outcome(l.err, file, dirs, l.state)
    ELSE IF dryRun THEN Outcome(NoError, file, dirs, l.state)
    ELSE LET repo == IF IsGitURL(args[2]) THEN AddRepo(dirs, name, cloneOk)
                     ELSE [err |-> NoError, path |-> args[2], cache |-> dirs] IN
    IF repo.err # NoError THEN Outcome(repo.err, file, repo.cache, l.state)
    ELSE LET r == AddConfig(l.state, name, repo.path, description) IN
    IF r.err # NoError THEN Outcome(r.err, file, repo.cache, l.state)
    ELSE LET s == Save(r.state, file, saveOutcome) IN
    Outcome(s.err, s.file, repo.cache, l.state)

\* `config remove NAME`
removeConfig(file, dirs, args, dryRun, removeOk, saveOutcome) ==
    IF Len(args) # 1 THEN Outcome(UnexpectedNumArgsError(1, Len(args)), file, dirs, New)
    ELSE LET name == args[1]
             l == Load(file) IN
    IF l.err # NoError THEN Outcome(l.err, file, dirs, l.state)
    ELSE IF name \notin DOMAIN l.state.Configs
    THEN Outcome(ConfigNotFoundError(name), file, dirs, l.state)
    ELSE IF dryRun THEN Outcome(NoError, file, dirs, l.state)
    ELSE LET repo == IF IsCached(dirs, name) THEN RemoveRepo(dirs, name, removeOk)
                     ELSE [err |-> NoError, cache |-> dirs] IN
    IF repo.err # NoError THEN Outcome(repo.err, file, repo.cache, l.state)
    ELSE LET r == RemoveConfig(l.state, name) IN
    IF r.err # NoError THEN Outcome(r.err, file, repo.cache, l.state)
    ELSE LET s == Save(r.state, file, saveOutcome) IN
    Outcome(s.err, s.file, repo.cache, l.state)

\* a variant that refuses a name that is not an Environment
setContext_Checked(file, dirs, args, dryRun, saveOutcome) ==
    IF Len(args) # 1 THEN Outcome(UnexpectedNumArgsError(1, Len(args)), file, dirs, New)
    ELSE LET l == Load(file) IN
    IF l.err # NoError THEN Outcome(l.err, file, dirs, l.state)
    ELSE IF args[1] \notin DOMAIN l.state.Environments
    THEN Outcome(EnvironmentNotFoundError(args[1]), file, dirs, l.state)
    ELSE IF dryRun THEN Outcome(NoError, file, dirs, l.state)
    ELSE LET s == Save([l.state EXCEPT !.Context = args[1]], file, saveOutcome) IN
    Outcome(s.err, s.file, dirs, l.state)

\* `context set ENV`
setContext(file, dirs, args, dryRun, saveOutcome) ==
    IF Len(args) # 1 THEN Outcome(UnexpectedNumArgsError(1, Len(args)), file, dirs, New)
    ELSE LET l == Load(file) IN
    IF l.err # NoError THEN Outcome(l.err, file, dirs, l.state)
    ELSE IF dryRun THEN Outcome(NoError, file, dirs, l.state)
    ELSE LET s == Save([l.state EXCEPT !.Context = args[1]], file, saveOutcome) IN
    Outcome(s.err, s.file, dirs, l.state)

\* `context clear`
clearContext(file, dirs, dryRun, saveOutcome) ==
    LET l == Load(file) IN
    IF l.err # NoError THEN Outcome(l.err, file, dirs, l.state)
    ELSE IF dryRun THEN Outcome(NoError, file, dirs, l.state)
    ELSE LET s == Save([l.state EXCEPT !.Context = ""], file, saveOutcome) IN
    Outcome(s.err, s.file, dirs, l.state)

----------------------------------------------------------------------------
(* the record of a call *)

NoCall ==
    [op |-> "none", name |-> "", command |-> "", config |-> "", commandLine |-> <<>>,
     path |-> "", description |-> "", context |-> "", dryRun |-> FALSE, args |-> <<>>,
     err |-> NoError, pre |-> New, preFile |-> NoFile, preCache |-> {},
     cmdLine |-> <<>>, printed |-> <<>>, launched |-> <<>>, rows |-> <<>>, seq |-> 0]

----------------------------------------------------------------------------
(* Spec: a client of package state *)

Init ==
    /\ appState = New
    /\ stateFile = NoFile
    /\ cache = {}
    /\ ret = NoCall

CallAddCommand ==
    \E name \in Names, commandLine \in CommandLines, description \in Descriptions :
        LET r == AddCommand(appState, name, commandLine, description) IN
        /\ appState' = r.state
        /\ ret' = [NoCall EXCEPT !.op = "AddCommand", !.name = name,
                                 !.commandLine = commandLine, !.description = description,
                                 !.err = r.err, !.pre = appState]
        /\ UNCHANGED <<stateFile, cache>>

CallRemoveCommand ==
    \E name \in Names :
        LET r == RemoveCommand(appState, name) IN
        /\ appState' = r.state
        /\ ret' = [NoCall EXCEPT !.op = "RemoveCommand", !.name = name,
                                 !.err = r.err, !.pre = appState]
        /\ UNCHANGED <<stateFile, cache>>

CallAddConfig ==
    \E name \in Names, path \in Paths, description \in Descriptions :
        LET r == AddConfig(appState, name, path, description) IN
        /\ appState' = r.state
        /\ ret' = [NoCall EXCEPT !.op = "AddConfig", !.name = name, !.path = path,
                                 !.description = description,
                                 !.err = r.err, !.pre = appState]
        /\ UNCHANGED <<stateFile, cache>>

CallRemoveConfig ==
    \E name \in Names :
        LET r == RemoveConfig(appState, name) IN
        /\ appState' = r.state
        /\ ret' = [NoCall EXCEPT !.op = "RemoveConfig", !.name = name,
                                 !.err = r.err, !.pre = appState]
        /\ UNCHANGED <<stateFile, cache>>

CallAddEnvironment ==
    \E name \in Names, command \in Names, config \in Names, description \in Descriptions :
        LET r == AddEnvironment(appState, name, command, config, description) IN
        /\ appState' = r.state
        /\ ret' = [NoCall EXCEPT !.op = "AddEnvironment", !.name = name,
                                 !.command = command, !.config = config,
                                 !.description = description,
                                 !.err = r.err, !.pre = appState]
        /\ UNCHANGED <<stateFile, cache>>

CallRemoveEnvironment ==
    \E name \in Names :
        LET r == RemoveEnvironment(appState, name) IN
        /\ appState' = r.state
        /\ ret' = [NoCall EXCEPT !.op = "RemoveEnvironment", !.name = name,
                                 !.err = r.err, !.pre = appState]
        /\ UNCHANGED <<stateFile, cache>>

\* the assignment appState.Context = NAME (set) or "" (clear)
AssignContext ==
    \E name \in Names \cup {""} :
        /\ appState' = [appState EXCEPT !.Context = name]
        /\ ret' = [NoCall EXCEPT !.op = "AssignContext", !.name = name, !.pre = appState]
        /\ UNCHANGED <<stateFile, cache>>

Next ==
    \/ CallAddCommand
    \/ CallRemoveCommand
    \/ CallAddConfig
    \/ CallRemoveConfig
    \/ CallAddEnvironment
    \/ CallRemoveEnvironment
    \/ AssignContext

Spec == Init /\ [][Next]_vars

\* SpecAddRemove: the client only adds and removes; it never assigns Context
NextAddRemove ==
    \/ CallAddCommand
    \/ CallRemoveCommand
    \/ CallAddConfig
    \/ CallRemoveConfig
    \/ CallAddEnvironment
    \/ CallRemoveEnvironment

SpecAddRemove == Init /\ [][NextAddRemove]_vars

----------------------------------------------------------------------------
(* SpecOpen: `emacsctl open` and `emacsctl environment list` against any state file *)

OpenCommands == {EmacsCommand(Head(l), Tail(l), d) : l \in CommandLines, d \in Descriptions}

OpenConfigs == {EmacsConfig(p, d) : p \in Paths, d \in Descriptions}

OpenEnvironments == {Environment(c, f, d) : c \in Names, f \in Names, d \in Descriptions}

\* the States a state file can decode to
OpenStates ==
    [Commands : PartialMaps(Names, OpenCommands),
     Configs : PartialMaps(Names, OpenConfigs),
     Environments : PartialMaps(Names, OpenEnvironments),
     Context : Names \cup {""}]

InitOpen ==
    /\ appState = New
    /\ stateFile \in {NoFile, MalformedFile} \cup {FileOf(s) : s \in OpenStates}
    /\ cache = {}
    /\ ret = NoCall

\* `emacsctl open [--context ENV] [FILES...]`; the handler is openEmacs(_ *cli.Context):
\* it never reads the positional arguments
CallOpenEmacs ==
    \E args \in FileArgs, context \in Names \cup {""}, dryRun \in BOOLEAN, runOk \in BOOLEAN :
        LET r == openEmacs(stateFile, context, dryRun, runOk) IN
        /\ stateFile' = r.file
        /\ ret' = [NoCall EXCEPT !.op = "openEmacs", !.args = args, !.context = context,
                                 !.dryRun = dryRun, !.err = r.err, !.pre = r.appState,
                                 !.preFile = stateFile, !.preCache = cache,
                                 !.cmdLine = r.cmdLine, !.printed = r.printed,
                                 !.launched = r.launched]
        /\ UNCHANGED <<appState, cache>>

\* `emacsctl environment list`
CallListEnvironments ==
    \E order \in Orders(DOMAIN Load(stateFile).state.Environments) :
        LET r == listEnvironments(stateFile, order) IN
        /\ stateFile' = r.file
        /\ ret' = [NoCall EXCEPT !.op = "listEnvironments", !.err = r.err,
                                 !.pre = r.appState, !.preFile = stateFile,
                                 !.preCache = cache, !.rows = r.rows]
        /\ UNCHANGED <<appState, cache>>

NextOpen ==
    \/ CallOpenEmacs
    \/ CallListEnvironments

SpecOpen == InitOpen /\ [][NextOpen]_vars

----------------------------------------------------------------------------
(* SpecRoundTrip: Save and Load of the States the State methods produce *)

\* how many State operations lead to the States that are saved
MaxOps == 3

RoundTripDescriptions == {"d", InvalidUTF8}

\* the States one State operation leads to from s
StoreSuccessors(s) ==
    {AddCommand(s, n, l, d).state : n \in Names, l \in CommandLines, d \in RoundTripDescriptions}
    \cup {RemoveCommand(s, n).state : n \in Names}
    \cup {AddConfig(s, n, p, d).state : n \in Names, p \in Paths, d \in RoundTripDescriptions}
    \cup {RemoveConfig(s, n).state : n \in Names}
    \cup UNION {{AddEnvironment(s, n, c, f, d).state : n \in Names, c \in Names}
                   : f \in Names, d \in RoundTripDescriptions}
    \cup {RemoveEnvironment(s, n).state : n \in Names}
    \cup {[s EXCEPT !.Context = n] : n \in Names \cup {""}}

RECURSIVE ReachableIn(_)
\* the States reachable from New() with at most k State operations
ReachableIn(k) ==
    IF k = 0 THEN {New}
    ELSE LET R == ReachableIn(k - 1) IN R \cup UNION {StoreSuccessors(s) : s \in R}

InitRoundTrip ==
    /\ appState \in ReachableIn(MaxOps)
    /\ stateFile = NoFile
    /\ cache = {}
    /\ ret = NoCall

\* state.Save(appState, path)
CallSave ==
    \E outcome \in SaveOutcomes :
        LET r == Save(appState, stateFile, outcome) IN
        /\ stateFile' = r.file
        /\ ret' = [NoCall EXCEPT !.op = "Save", !.err = r.err, !.pre = appState,
                                 !.preFile = stateFile]
        /\ UNCHANGED <<appState, cache>>

\* appState, err = state.Load(path); on an error the client keeps the State it has
CallLoad ==
    LET l == Load(stateFile) IN
    /\ appState' = IF l.err = NoError THEN l.state ELSE appState
    /\ ret' = [NoCall EXCEPT !.op = "Load", !.err = l.err, !.pre = appState,
                             !.preFile = stateFile]
    /\ UNCHANGED <<stateFile, cache>>

NextRoundTrip ==
    \/ CallSave
    \/ CallLoad

SpecRoundTrip == InitRoundTrip /\ [][NextRoundTrip]_vars

----------------------------------------------------------------------------
(* SpecCLI: invocations of the handlers that write the state file, from a first run on *)

\* how many invocations follow one another
MaxInvocations == 4

GitURLs == {"https://host/cfg.git", "git@host:cfg.git"}

CliNameArgs == {<<>>} \cup {<<n>> : n \in Names}

CliCommandArgs == {<<"work">>} \cup {<<n, "emacs", "-nw">> : n \in Names}

CliConfigArgs == {<<"work">>} \cup {<<n, p>> : n \in Names, p \in Paths \cup GitURLs}

\* the --description flag: not given, or given
CliDescriptions == {""} \cup Descriptions

\* what goes wrong outside the program during an invocation: nothing, git clone,
\* os.RemoveAll, os.Create, File.Write.  A dry run reaches none of them.
SaveFaults(dryRun) == IF dryRun THEN {"none"} ELSE {"none", "create", "write"}

SaveOutcomeOf(fault) ==
    IF fault = "create" THEN "nocreate" ELSE IF fault = "write" THEN "nowrite" ELSE "ok"

InitCLI ==
    /\ appState = New
    /\ stateFile = NoFile
    /\ cache = {}
    /\ ret = NoCall

\* what every handler invocation records and leaves behind; seq counts the invocations
InvokedWith(op, args, command, config, dryRun, r) ==
    /\ ret.seq < MaxInvocations
    /\ stateFile' = r.file
    /\ cache' = r.cache
    /\ ret' = [NoCall EXCEPT !.op = op, !.args = args, !.command = command,
                             !.config = config, !.dryRun = dryRun, !.err = r.err,
                             !.pre = r.appState, !.preFile = stateFile, !.preCache = cache,
                             !.seq = ret.seq + 1]
    /\ UNCHANGED appState

\* an invocation of a handler without --command and --config
Invoked(op, args, dryRun, r) == InvokedWith(op, args, "", "", dryRun, r)

CallAddEnvironmentCmd ==
    \E args \in CliNameArgs, command \in Names, config \in Names,
       description \in CliDescriptions, dryRun \in BOOLEAN :
        \E fault \in SaveFaults(dryRun) :
            InvokedWith("addEnvironment", args, command, config, dryRun,
                        addEnvironment(stateFile, cache, args, command, config,
                                       description, dryRun, SaveOutcomeOf(fault)))

CallRemoveEnvironmentCmd ==
    \E args \in CliNameArgs, dryRun \in BOOLEAN :
        \E fault \in SaveFaults(dryRun) :
            Invoked("removeEnvironment", args, dryRun,
                    removeEnvironment(stateFile, cache, args, dryRun, SaveOutcomeOf(fault)))

CallAddCommandCmd ==
    \E args \in CliCommandArgs, description \in Descriptions, dryRun \in BOOLEAN :
        \E fault \in SaveFaults(dryRun) :
            Invoked("addCommand", args, dryRun,
                    addCommand(stateFile, cache, args, description, dryRun,
                               SaveOutcomeOf(fault)))

CallRemoveCommandCmd ==
    \E args \in CliNameArgs, dryRun \in BOOLEAN :
        \E fault \in SaveFaults(dryRun) :
            Invoked("removeCommand", args, dryRun,
                    removeCommand(stateFile, cache, args, dryRun, SaveOutcomeOf(fault)))

CallAddConfigCmd ==
    \E args \in CliConfigArgs, description \in Descriptions, dryRun \in BOOLEAN :
        \E fault \in SaveFaults(dryRun) \cup (IF dryRun THEN {} ELSE {"clone"}) :
            Invoked("addConfig", args, dryRun,
                    addConfig(stateFile, cache, args, description, dryRun,
                              fault # "clone", SaveOutcomeOf(fault)))

CallRemoveConfigCmd ==
    \E args \in CliNameArgs, dryRun \in BOOLEAN :
        \E fault \in SaveFaults(dryRun) \cup (IF dryRun THEN {} ELSE {"remove"}) :
            Invoked("removeConfig", args, dryRun,
                    removeConfig(stateFile, cache, args, dryRun, fault # "remove",
                                 SaveOutcomeOf(fault)))

CallSetContextCmd ==
    \E args \in CliNameArgs, dryRun \in BOOLEAN :
        \E fault \in SaveFaults(dryRun) :
            Invoked("setContext", args, dryRun,
                    setContext(stateFile, cache, args, dryRun, SaveOutcomeOf(fault)))

CallClearContextCmd ==
    \E dryRun \in BOOLEAN :
        \E fault \in SaveFaults(dryRun) :
            Invoked("clearContext", <<>>, dryRun,
                    clearContext(stateFile, cache, dryRun, SaveOutcomeOf(fault)))

CallOpenEmacsCmd ==
    \E context \in Names \cup {""}, dryRun \in BOOLEAN, runOk \in BOOLEAN :
        LET r == openEmacs(stateFile, context, dryRun, runOk) IN
        Invoked("openEmacs", <<>>, dryRun,
                Outcome(r.err, r.file, cache, r.appState))

NextCLI ==
    \/ CallAddEnvironmentCmd
    \/ CallRemoveEnvironmentCmd
    \/ CallAddCommandCmd
    \/ CallRemoveCommandCmd
    \/ CallAddConfigCmd
    \/ CallRemoveConfigCmd
    \/ CallSetContextCmd
    \/ CallClearContextCmd
    \/ CallOpenEmacsCmd

SpecCLI == InitCLI /\ [][NextCLI]_vars

----------------------------------------------------------------------------
(* SpecRace: two invocations of the tool against one state file.  Save is os.Create,  *)
(* which truncates, and then one Write from offset 0 on the invocation's own          *)
(* descriptor; the steps of the two invocations interleave.                           *)

RECURSIVE SetSum(_, _)
\* the sum of f[x] over the x in S
SetSum(S, f) ==
    IF S = {} THEN 0
    ELSE LET x == CHOOSE y \in S : TRUE IN f[x] + SetSum(S \ {x}, f)

\* the bytes of a JSON string without characters to escape
StrLen(str) == Len(str) + 2

\* the bytes json.MarshalIndent(_, "", "  ") writes for a struct whose values take
\* the lengths in the sequence valueLens under the keys in the sequence tags, when
\* the struct's closing brace is indented by indent
StructLen(tags, valueLens, indent) ==
    2 + SetSum(DOMAIN tags,
               [i \in DOMAIN tags |-> (indent + 2) + StrLen(tags[i]) + 2 + valueLens[i] + 1])
      + (Len(tags) - 1) + indent + 1

\* a []string: nil is null (New, and a decoded null, give nil; every BinArgs the
\* handlers add here is non-empty)
ArrayLen(a, indent) ==
    IF a = <<>> THEN 4
    ELSE 2 + SetSum(DOMAIN a, [i \in DOMAIN a |-> (indent + 2) + StrLen(a[i]) + 1])
           + (Len(a) - 1) + indent + 1

\* a map whose values take the lengths entryLens[k]
MapLen(entryLens, indent) ==
    IF DOMAIN entryLens = {} THEN 2
    ELSE 2 + SetSum(DOMAIN entryLens,
                    [k \in DOMAIN entryLens |-> (indent + 2) + StrLen(k) + 2 + entryLens[k] + 1])
           + (Cardinality(DOMAIN entryLens) - 1) + indent + 1

\* the number of bytes Save writes for the document d
MarshalIndentLen(d) ==
    StructLen(<<"commands", "configs", "environments", "context">>,
              <<MapLen([k \in DOMAIN d.commands |->
                           StructLen(<<"bin_path", "bin_args", "description">>,
                                     <<StrLen(d.commands[k].bin_path),
                                       ArrayLen(d.commands[k].bin_args, 6),
                                       StrLen(d.commands[k].description)>>, 4)], 2),
                MapLen([k \in DOMAIN d.configs |->
                           StructLen(<<"init_dir", "description">>,
                                     <<StrLen(d.configs[k].init_dir),
                                       StrLen(d.configs[k].description)>>, 4)], 2),
                MapLen([k \in DOMAIN d.environments |->
                           StructLen(<<"command_name", "config_name", "description">>,
                                     <<StrLen(d.environments[k].command_name),
                                       StrLen(d.environments[k].config_name),
                                       StrLen(d.environments[k].description)>>, 4)], 2),
                StrLen(d.context)>>, 0)

\* In SpecRace the state file also records how many bytes follow its document (the
\* decoder reads one JSON value and ignores what follows it); appState holds, for each
\* invocation, where it is and the State it holds; ret records the order of the steps.
WithTail(file, tail) ==
    [exists |-> file.exists, valid |-> file.valid, doc |-> file.doc, tail |-> tail]

\* the size of the file in bytes; the only file without a document here is an empty one
FileLen(file) ==
    IF file.exists /\ file.valid THEN MarshalIndentLen(file.doc) + file.tail ELSE 0

\* a variant that opens the file without truncating it
Create_NoTruncate(file) ==
    IF file.exists THEN file ELSE WithTail(MalformedFile, 0)

\* os.Create: the file exists and is empty
Create(file) == WithTail(MalformedFile, 0)

\* File.Write of the document from offset 0: bytes of the file beyond it stay
Write(file, doc) ==
    LET n == MarshalIndentLen(doc)
        size == FileLen(file)
    IN  [exists |-> TRUE, valid |-> TRUE, doc |-> doc,
         tail |-> IF size > n THEN size - n ELSE 0]

Procs == {1, 2}

\* the invocations that race
RaceOps ==
    {[op |-> "addCommand", args |-> <<"work", "emacs", "-nw">>],
     [op |-> "addConfig", args |-> <<"work", "/cfg/work">>],
     [op |-> "removeEnvironment", args |-> <<"default">>],
     [op |-> "setContext", args |-> <<"work">>],
     [op |-> "clearContext", args |-> <<>>]}

\* the handler up to its Save: r.err is what it returns before Save, r.file.doc is the
\* document it is about to save
UpToSave(o, file) ==
    CASE o.op = "addCommand" -> addCommand(file, {}, o.args, "d", FALSE, "ok")
      [] o.op = "addConfig" -> addConfig(file, {}, o.args, "d", FALSE, TRUE, "ok")
      [] o.op = "removeEnvironment" -> removeEnvironment(file, {}, o.args, FALSE, "ok")
      [] o.op = "setContext" -> setContext(file, {}, o.args, FALSE, "ok")
      [] o.op = "clearContext" -> clearContext(file, {}, FALSE, "ok")

InitRace ==
    /\ stateFile \in {WithTail(NoFile, 0), WithTail(FileOf(New), 0)}
    /\ cache = {}
    /\ appState = [p \in Procs |->
                      [pc |-> "start", op |-> "none", args |-> <<>>, err |-> NoError,
                       state |-> New, doc |-> EncodeState(New), clean |-> TRUE]]
    /\ ret = [op |-> "none", proc |-> 0, created |-> FALSE, loadedFirst |-> FALSE,
              saves |-> <<>>, overlapped |-> FALSE]

\* the invocations that are between their os.Create and their Write see p's step
Disturb(p) ==
    [q \in Procs |-> IF q # p /\ appState[q].pc = "write"
                     THEN [appState[q] EXCEPT !.clean = FALSE] ELSE appState[q]]

\* invocation p loads the file, validates and changes its State in memory
RaceLoad(p) ==
    /\ appState[p].pc = "start"
    /\ \E o \in RaceOps :
        LET r == UpToSave(o, stateFile) IN
        appState' = [appState EXCEPT ![p] =
                        [pc |-> IF r.err = NoError THEN "create" ELSE "done",
                         op |-> o.op, args |-> o.args, err |-> r.err,
                         state |-> r.appState, doc |-> r.file.doc, clean |-> TRUE]]
    /\ ret' = [ret EXCEPT !.op = "load", !.proc = p]
    /\ UNCHANGED <<stateFile, cache>>

\* invocation p is in Save: os.Create
RaceCreate(p) ==
    /\ appState[p].pc = "create"
    /\ stateFile' = Create(stateFile)
    /\ appState' = [Disturb(p) EXCEPT ![p].pc = "write"]
    /\ ret' = [ret EXCEPT !.op = "create", !.proc = p, !.created = TRUE,
                          !.loadedFirst = IF ret.created THEN @
                                          ELSE \A q \in Procs : appState[q].pc # "start"]
    /\ UNCHANGED cache

\* invocation p is in Save: file.Write, and the handler returns
RaceWrite(p) ==
    /\ appState[p].pc = "write"
    /\ stateFile' = Write(stateFile, appState[p].doc)
    /\ appState' = [Disturb(p) EXCEPT ![p].pc = "done"]
    /\ ret' = [ret EXCEPT !.op = "write", !.proc = p, !.saves = Append(@, p),
                          !.overlapped = @ \/ ~appState[p].clean]
    /\ UNCHANGED cache

NextRace ==
    \E p \in Procs :
        \/ RaceLoad(p)
        \/ RaceCreate(p)
        \/ RaceWrite(p)

SpecRace == InitRace /\ [][NextRace]_vars

----------------------------------------------------------------------------
(* Properties of the State methods, checked under Spec *)

\* C1: RemoveCommand(n) on an existing Command n succeeds; afterwards
\* CommandExists(n) is false and the active context is empty.
C1_RemoveCommandRemoves ==
    (ret.op = "RemoveCommand" /\ CommandExists(ret.pre, ret.name)) =>
        /\ ret.err = NoError
        /\ ~CommandExists(appState, ret.name)
        /\ appState.Context = ""

\* C2: RemoveCommand(n) on a name that is not a Command fails with
\* CommandNotFoundError{n} and changes nothing.
C2_RemoveCommandAbsentFails ==
    (ret.op = "RemoveCommand" /\ ~CommandExists(ret.pre, ret.name)) =>
        /\ ret.err = CommandNotFoundError(ret.name)
        /\ appState = ret.pre

\* C3: AddEnvironment(name, cmd, cfg, d) fails with EnvironmentExistsError{name} when
\* name is an Environment, else with CommandNotFoundError{cmd} when cmd is not a
\* Command, else with ConfigNotFoundError{cfg} when cfg is not a Configuration; a
\* failing call changes nothing.
C3_AddEnvironmentValidation ==
    ret.op = "AddEnvironment" =>
        /\ EnvironmentExists(ret.pre, ret.name) =>
               ret.err = EnvironmentExistsError(ret.name)
        /\ (~EnvironmentExists(ret.pre, ret.name) /\ ~CommandExists(ret.pre, ret.command)) =>
               ret.err = CommandNotFoundError(ret.command)
        /\ (/\ ~EnvironmentExists(ret.pre, ret.name)
            /\ CommandExists(ret.pre, ret.command)
            /\ ~ConfigExists(ret.pre, ret.config)) =>
               ret.err = ConfigNotFoundError(ret.config)
        /\ ret.err # NoError => appState = ret.pre

\* C4: when name is not an Environment, cmd is a Command and cfg is a Configuration,
\* AddEnvironment succeeds, stores {cmd, cfg, d} under name and makes name the
\* active context.
C4_AddEnvironmentSucceeds ==
    (/\ ret.op = "AddEnvironment"
     /\ ~EnvironmentExists(ret.pre, ret.name)
     /\ CommandExists(ret.pre, ret.command)
     /\ ConfigExists(ret.pre, ret.config)) =>
        /\ ret.err = NoError
        /\ EnvironmentExists(appState, ret.name)
        /\ appState.Environments[ret.name] =
               [CommandName |-> ret.command, ConfigName |-> ret.config,
                Description |-> ret.description]
        /\ appState.Context = ret.name

\* C5: AddCommand(n, line) on a state without Command n succeeds and stores
\* BinPath = line[0], BinArgs = line[1:]; on a state with Command n it fails with
\* CommandExistsError{n} and changes nothing.
C5_AddCommand ==
    ret.op = "AddCommand" =>
        /\ ~CommandExists(ret.pre, ret.name) =>
               /\ ret.err = NoError
               /\ CommandExists(appState, ret.name)
               /\ appState.Commands[ret.name].BinPath = ret.commandLine[1]
               /\ appState.Commands[ret.name].BinArgs =
                      SubSeq(ret.commandLine, 2, Len(ret.commandLine))
        /\ CommandExists(ret.pre, ret.name) =>
               /\ ret.err = CommandExistsError(ret.name)
               /\ appState = ret.pre

\* a second AddCommand of a name added before, carrying arguments, was refused
C5_Witness ==
    /\ ret.op = "AddCommand"
    /\ ret.err = CommandExistsError(ret.name)
    /\ ret.name # "default"
    /\ appState.Commands[ret.name].BinArgs # <<>>
    /\ ret.commandLine # <<appState.Commands[ret.name].BinPath>>
                             \o appState.Commands[ret.name].BinArgs

\* C6: AddConfig(n, path, d) fails with ConfigExistsError{n} and changes nothing when n
\* is a Configuration; otherwise it stores {path, d} under n, makes n the active
\* context and leaves Commands and Environments alone.
C6_AddConfig ==
    ret.op = "AddConfig" =>
        /\ ConfigExists(ret.pre, ret.name) =>
               /\ ret.err = ConfigExistsError(ret.name)
               /\ appState = ret.pre
        /\ ~ConfigExists(ret.pre, ret.name) =>
               /\ ret.err = NoError
               /\ ConfigExists(appState, ret.name)
               /\ appState.Configs[ret.name] =
                      [InitDir |-> ret.path, Description |-> ret.description]
               /\ appState.Context = ret.name
               /\ appState.Commands = ret.pre.Commands
               /\ appState.Environments = ret.pre.Environments

\* a configuration was added while another name was the active context
C6_Witness ==
    /\ ret.op = "AddConfig"
    /\ ret.err = NoError
    /\ ret.pre.Context \notin {"", ret.name}
    /\ appState.Context = ret.name

\* C7: a successful RemoveCommand or RemoveConfig leaves the active context empty; a
\* failed one leaves it as it was.
C7_RemovalClearsContext ==
    ret.op \in {"RemoveCommand", "RemoveConfig"} =>
        /\ ret.err = NoError => appState.Context = ""
        /\ ret.err # NoError => appState.Context = ret.pre.Context

\* a configuration was removed that the active environment does not use
C7_Witness ==
    /\ ret.op = "RemoveConfig"
    /\ ret.err = NoError
    /\ EnvironmentExists(ret.pre, ret.pre.Context)
    /\ ret.pre.Environments[ret.pre.Context].ConfigName # ret.name
    /\ ConfigExists(ret.pre, ret.pre.Environments[ret.pre.Context].ConfigName)
    /\ appState.Context = ""

\* C8: RemoveEnvironment(n) fails with EnvironmentNotFoundError{n} and changes nothing
\* when n is not an Environment; otherwise it deletes exactly Environments[n], empties
\* the active context and leaves Commands and Configs alone.
C8_RemoveEnvironment ==
    ret.op = "RemoveEnvironment" =>
        /\ ~EnvironmentExists(ret.pre, ret.name) =>
               /\ ret.err = EnvironmentNotFoundError(ret.name)
               /\ appState = ret.pre
        /\ EnvironmentExists(ret.pre, ret.name) =>
               /\ ret.err = NoError
               /\ DOMAIN appState.Environments = (DOMAIN ret.pre.Environments) \ {ret.name}
               /\ \A n \in DOMAIN appState.Environments :
                      appState.Environments[n] = ret.pre.Environments[n]
               /\ appState.Context = ""
               /\ appState.Commands = ret.pre.Commands
               /\ appState.Configs = ret.pre.Configs

\* an environment was removed while another environment was the active context
C8_Witness ==
    /\ ret.op = "RemoveEnvironment"
    /\ ret.err = NoError
    /\ ret.pre.Context # ret.name
    /\ EnvironmentExists(ret.pre, ret.pre.Context)
    /\ appState.Context = ""

----------------------------------------------------------------------------
(* Properties of resolution, checked under SpecOpen *)

\* what resolving the environment named e in State s must give
ResolvesAs(s, e, r) ==
    IF ~EnvironmentExists(s, e) THEN r.err = EnvironmentNotFoundError(e)
    ELSE /\ r.err.type # "EnvironmentNotFoundError"
         /\ r.err.type = "CommandNotFoundError" => r.err.Name = s.Environments[e].CommandName
         /\ r.err.type = "ConfigNotFoundError" => r.err.Name = s.Environments[e].ConfigName
         /\ r.cmdLine # <<>> =>
                /\ r.cmdLine[1] = s.Commands[s.Environments[e].CommandName].BinPath
                /\ r.cmdLine[Len(r.cmdLine)] = s.Configs[s.Environments[e].ConfigName].InitDir

\* C9: `open` resolves the --context override whenever it is non-empty, and the
\* stored active context only when the override is empty.
C9_OverrideWins ==
    (ret.op = "openEmacs" /\ ret.err # DecodeError) =>
        /\ ret.context # "" => ResolvesAs(ret.pre, ret.context, ret)
        /\ (ret.context = "" /\ ret.pre.Context # "") =>
               ResolvesAs(ret.pre, ret.pre.Context, ret)

\* an override resolved while the stored context names a different environment
\* that resolves to another command line
C9_Witness ==
    /\ ret.op = "openEmacs"
    /\ ret.context # ""
    /\ ret.pre.Context \notin {"", ret.context}
    /\ ret.cmdLine # <<>>
    /\ EnvironmentExists(ret.pre, ret.pre.Context)
    /\ LET other == ret.pre.Environments[ret.pre.Context] IN
       /\ CommandExists(ret.pre, other.CommandName)
       /\ ConfigExists(ret.pre, other.ConfigName)
       /\ CommandLine(ret.pre.Commands[other.CommandName],
                      ret.pre.Configs[other.ConfigName].InitDir) # ret.cmdLine

\* C10: `open` reports the first broken link, in the order no context, environment,
\* command, configuration, and builds the command line exactly when none is broken.
C10_FirstBrokenLink ==
    (ret.op = "openEmacs" /\ ret.err # DecodeError) =>
        LET s == ret.pre
            e == IF ret.context # "" THEN ret.context ELSE s.Context
        IN  IF e = "" THEN ret.err = NoContextError /\ ret.cmdLine = <<>>
            ELSE IF ~EnvironmentExists(s, e)
            THEN ret.err = EnvironmentNotFoundError(e) /\ ret.cmdLine = <<>>
            ELSE IF ~CommandExists(s, s.Environments[e].CommandName)
            THEN /\ ret.err = CommandNotFoundError(s.Environments[e].CommandName)
                 /\ ret.cmdLine = <<>>
            ELSE IF ~ConfigExists(s, s.Environments[e].ConfigName)
            THEN /\ ret.err = ConfigNotFoundError(s.Environments[e].ConfigName)
                 /\ ret.cmdLine = <<>>
            ELSE /\ ret.err \in {NoError, ExecError}
                 /\ ret.cmdLine # <<>>

\* the environment's command and configuration are both missing and the command is
\* the one reported
C10_Witness ==
    /\ ret.op = "openEmacs"
    /\ ret.err.type = "CommandNotFoundError"
    /\ \E e \in DOMAIN ret.pre.Environments :
           /\ e = (IF ret.context # "" THEN ret.context ELSE ret.pre.Context)
           /\ ~CommandExists(ret.pre, ret.pre.Environments[e].CommandName)
           /\ ~ConfigExists(ret.pre, ret.pre.Environments[e].ConfigName)
           /\ ret.pre.Environments[e].CommandName # ret.pre.Environments[e].ConfigName

\* the context `open` resolves: the override, else the stored one
EffectiveContext == IF ret.context # "" THEN ret.context ELSE ret.pre.Context

\* C11: the resolved vector is BinPath, then BinArgs in stored order, then
\* "--init-directory", then InitDir: len(BinArgs)+3 elements.
C11_VectorShape ==
    (ret.op = "openEmacs" /\ ret.cmdLine # <<>>) =>
        LET env == ret.pre.Environments[EffectiveContext]
            cmd == ret.pre.Commands[env.CommandName]
            cfg == ret.pre.Configs[env.ConfigName]
            n == Len(cmd.BinArgs)
        IN  /\ Len(ret.cmdLine) = n + 3
            /\ ret.cmdLine[1] = cmd.BinPath
            /\ \A i \in 1..n : ret.cmdLine[i + 1] = cmd.BinArgs[i]
            /\ ret.cmdLine[n + 2] = "--init-directory"
            /\ ret.cmdLine[n + 3] = cfg.InitDir

\* a command with two different arguments was resolved
C11_Witness ==
    /\ ret.op = "openEmacs"
    /\ Len(ret.cmdLine) = 5
    /\ ret.cmdLine[2] # ret.cmdLine[3]

\* C12: the command line `open` executes, or prints under dry-run, is the resolved
\* vector followed by the FILES in the order given.
C12_FilesAppended ==
    (ret.op = "openEmacs" /\ ret.cmdLine # <<>>) =>
        /\ ret.dryRun => ret.printed = <<Join(ret.cmdLine \o ret.args, " ")>>
        /\ ~ret.dryRun => ret.launched = <<ret.cmdLine \o ret.args>>

\* C13: `open` changes neither the state file nor the cache, whether it succeeds or
\* fails.
C13_OpenMutatesNothing ==
    ret.op = "openEmacs" =>
        /\ stateFile = ret.preFile
        /\ cache = ret.preCache
        /\ ret.err # DecodeError => Load(stateFile).state = ret.pre

\* `open` resolved an override that differs from the stored context, and launched
C13_Witness ==
    /\ ret.op = "openEmacs"
    /\ ret.launched # <<>>
    /\ ret.context \notin {"", ret.pre.Context}
    /\ ret.pre.Context # ""

C15_NoEnvironmentsInitially ==
    (ret.op = "listEnvironments" /\ ~ret.preFile.exists) => ret.rows = <<>>

----------------------------------------------------------------------------
(* Properties of Save and Load, checked under SpecRoundTrip *)

\* every string of the State is valid UTF-8
AllValidUTF8(s) ==
    /\ ToValidUTF8(s.Context) = s.Context
    /\ \A n \in DOMAIN s.Commands :
           /\ ToValidUTF8(n) = n
           /\ ToValidUTF8(s.Commands[n].BinPath) = s.Commands[n].BinPath
           /\ ToValidUTF8(s.Commands[n].Description) = s.Commands[n].Description
           /\ \A i \in DOMAIN s.Commands[n].BinArgs :
                  ToValidUTF8(s.Commands[n].BinArgs[i]) = s.Commands[n].BinArgs[i]
    /\ \A n \in DOMAIN s.Configs :
           /\ ToValidUTF8(n) = n
           /\ ToValidUTF8(s.Configs[n].InitDir) = s.Configs[n].InitDir
           /\ ToValidUTF8(s.Configs[n].Description) = s.Configs[n].Description
    /\ \A n \in DOMAIN s.Environments :
           /\ ToValidUTF8(n) = n
           /\ ToValidUTF8(s.Environments[n].CommandName) = s.Environments[n].CommandName
           /\ ToValidUTF8(s.Environments[n].ConfigName) = s.Environments[n].ConfigName
           /\ ToValidUTF8(s.Environments[n].Description) = s.Environments[n].Description

\* C16 as stated: a Load that follows a successful Save of a State the State
\* operations produce gives back an equal State.
C16_RoundTrip ==
    [][(ret.op = "Save" /\ ret.err = NoError /\ ret'.op = "Load") =>
           (ret'.err = NoError /\ appState' = appState)]_vars

\* C16 amended: a Load that follows a successful Save of a State whose strings are
\* all valid UTF-8 gives back an equal State.
C16_RoundTripValidUTF8 ==
    [][(ret.op = "Save" /\ ret.err = NoError /\ ret'.op = "Load" /\ AllValidUTF8(appState)) =>
           (ret'.err = NoError /\ appState' = appState)]_vars

\* a saved State with an added command that has arguments, an added configuration and
\* no active default context was loaded back
C16_Witness ==
    /\ ret.op = "Load"
    /\ ret.err = NoError
    /\ ret.preFile = FileOf(ret.pre)
    /\ AllValidUTF8(ret.pre)
    /\ appState = ret.pre
    /\ \E n \in DOMAIN appState.Commands : appState.Commands[n].BinArgs # <<>>
    /\ DOMAIN appState.Configs # {"default"}
    /\ appState.Context # "default"

----------------------------------------------------------------------------
(* Properties of the handlers, checked under SpecCLI *)

\* C17: an invocation that returns an error raised before Save (argument count, load,
\* pre-validation, clone or cache removal, the State method) leaves the state file
\* exactly as it was before the invocation.
C17_FailureLeavesFile ==
    (ret.op # "none" /\ ret.err \notin {NoError, SaveError}) => stateFile = ret.preFile

\* `config add default URL` when a file has been saved: the clone is made, AddConfig
\* refuses the name, and the file is as before
C17_Witness ==
    /\ ret.op = "addConfig"
    /\ ret.err = ConfigExistsError(ret.args[1])
    /\ cache # ret.preCache
    /\ ret.preFile.exists
    /\ stateFile = ret.preFile

----------------------------------------------------------------------------
(* Properties of removal and addition of Commands, checked under Spec *)

\* the error of resolving the environment named e in State s
ResolveErr(s, e) == openEmacs(FileOf(s), e, TRUE, TRUE).err

\* C18: when RemoveCommand(c) succeeds on a State where Command c exists and an
\* Environment e names c as its command and an existing Configuration as its config,
\* e is still present afterwards and resolving e fails with CommandNotFoundError{c}.
C18_DanglingCommand ==
    (ret.op = "RemoveCommand" /\ ret.err = NoError /\ CommandExists(ret.pre, ret.name)) =>
        \A e \in DOMAIN ret.pre.Environments :
            (/\ ret.pre.Environments[e].CommandName = ret.name
             /\ ConfigExists(ret.pre, ret.pre.Environments[e].ConfigName)) =>
                /\ EnvironmentExists(appState, e)
                /\ ResolveErr(appState, e) = CommandNotFoundError(ret.name)

\* C19: a successful RemoveCommand leaves Configs and Environments unchanged, and a
\* successful RemoveConfig leaves Commands and Environments unchanged.
C19_RemovalDoesNotCascade ==
    /\ (ret.op = "RemoveCommand" /\ ret.err = NoError) =>
           /\ appState.Configs = ret.pre.Configs
           /\ appState.Environments = ret.pre.Environments
    /\ (ret.op = "RemoveConfig" /\ ret.err = NoError) =>
           /\ appState.Commands = ret.pre.Commands
           /\ appState.Environments = ret.pre.Environments

\* C20: a successful AddCommand leaves Context, Configs and Environments as they were.
C20_AddCommandFrame ==
    (ret.op = "AddCommand" /\ ret.err = NoError) =>
        /\ appState.Context = ret.pre.Context
        /\ appState.Configs = ret.pre.Configs
        /\ appState.Environments = ret.pre.Environments

\* a Command added while another name is the active context
C20_Witness ==
    /\ ret.op = "AddCommand"
    /\ ret.err = NoError
    /\ ret.pre.Context \notin {"", ret.name}
    /\ appState.Context = ret.pre.Context
    /\ CommandExists(appState, ret.name)

\* C21: `context set NAME` with one argument and a loadable file succeeds whatever NAME
\* is and, when not a dry run, saves the loaded State with only Context changed to
\* NAME; `context clear` saves it with only Context changed to "".  A NAME that is not
\* an Environment is refused by a later `open`, with EnvironmentNotFoundError{NAME}.
C21_ContextSetters ==
    /\ (/\ ret.op = "setContext"
        /\ Len(ret.args) = 1
        /\ Load(ret.preFile).err = NoError
        /\ ret.err # SaveError) =>
           /\ ret.err = NoError
           /\ cache = ret.preCache
           /\ ~ret.dryRun =>
                 /\ Load(stateFile) =
                        [err |-> NoError, state |-> [ret.pre EXCEPT !.Context = ret.args[1]]]
                 /\ ~EnvironmentExists(ret.pre, ret.args[1]) =>
                        openEmacs(stateFile, "", TRUE, TRUE).err =
                            EnvironmentNotFoundError(ret.args[1])
    /\ (/\ ret.op = "clearContext"
        /\ Load(ret.preFile).err = NoError
        /\ ret.err # SaveError) =>
           /\ ret.err = NoError
           /\ cache = ret.preCache
           /\ ~ret.dryRun =>
                 Load(stateFile) = [err |-> NoError, state |-> [ret.pre EXCEPT !.Context = ""]]

\* a context set to a name that is no Environment, on a State that has Environments
C21_Witness ==
    /\ ret.op = "setContext"
    /\ ret.err = NoError
    /\ ~ret.dryRun
    /\ ~EnvironmentExists(ret.pre, ret.args[1])
    /\ ret.pre.Environments # <<>>
    /\ Load(stateFile).state.Context = ret.args[1]

\* C22: a `config add NAME PATH` that succeeds and is not a dry run has, when PATH begins
\* with "git@" or "https://", cloned into the cache directory of NAME and saved the
\* Configuration with InitDir <cacheDir>/NAME, not PATH; otherwise it has saved InitDir
\* PATH.  Whatever its outcome, a PATH with neither prefix leaves the cache as it was.
C22_GitURLIsCloned ==
    (ret.op = "addConfig" /\ Len(ret.args) = 2) =>
        LET name == ret.args[1]
            path == ret.args[2]
            remote == HasPrefix(path, "git@") \/ HasPrefix(path, "https://")
            saved == Load(stateFile).state
        IN  /\ ~remote => cache = ret.preCache
            /\ (ret.err = NoError /\ ~ret.dryRun) =>
                   /\ ConfigExists(saved, name)
                   /\ remote =>
                          /\ name \in cache \ ret.preCache
                          /\ saved.Configs[name].InitDir = (CacheDir \o "/") \o name
                          /\ saved.Configs[name].InitDir # path
                   /\ ~remote => saved.Configs[name].InitDir = path

\* a Configuration added from the git@ form of a repository URL
C22_Witness ==
    /\ ret.op = "addConfig"
    /\ ret.err = NoError
    /\ ~ret.dryRun
    /\ HasPrefix(ret.args[2], "git@")
    /\ ret.args[1] \in cache
    /\ Load(stateFile).state.Configs[ret.args[1]].InitDir = RepoDir(CacheDir, ret.args[1])

----------------------------------------------------------------------------
(* Properties of the `open` handler under dry run, checked under SpecOpen *)

\* the environment `open` resolves has its Command and its Configuration
Resolvable(s, e) ==
    /\ e # ""
    /\ EnvironmentExists(s, e)
    /\ CommandExists(s, s.Environments[e].CommandName)
    /\ ConfigExists(s, s.Environments[e].ConfigName)

----------------------------------------------------------------------------
(* Properties of two racing invocations, checked under SpecRace *)

\* both invocations loaded before either began to save, and both have saved
BothSavedAfterBothLoaded ==
    /\ \A p \in Procs : appState[p].pc = "done"
    /\ Len(ret.saves) = 2
    /\ ret.loadedFirst

\* the file holds the document of the invocation that wrote last, and nothing else
LastWriterWins ==
    LET last == ret.saves[2] IN
    /\ stateFile.exists
    /\ stateFile.valid
    /\ stateFile.doc = appState[last].doc
    /\ stateFile.tail = 0

\* C24: when both invocations load before either saves, the file in the end is exactly
\* the document written by the invocation that saved last.
C24_LastWriterWins == BothSavedAfterBothLoaded => LastWriterWins

\* C24 as it holds: the State that Load reads from the file in the end is the one the
\* invocation that wrote last saved, and the file is exactly that document when the two
\* Saves do not overlap (no step of the other Save falls between an invocation's
\* os.Create and its Write).
C24_LastWriterWinsIfSavesDisjoint ==
    BothSavedAfterBothLoaded =>
        /\ Load(stateFile) =
               [err |-> NoError, state |-> DecodeState(appState[ret.saves[2]].doc)]
        /\ ~ret.overlapped => LastWriterWins

\* the command added by the invocation that saved first is not in the file
C24_Witness ==
    /\ BothSavedAfterBothLoaded
    /\ ~ret.overlapped
    /\ appState[ret.saves[1]].op = "addCommand"
    /\ appState[ret.saves[2]].op = "removeEnvironment"
    /\ "work" \notin DOMAIN stateFile.doc.commands
    /\ "default" \notin DOMAIN stateFile.doc.environments

----------------------------------------------------------------------------
(* Properties of the handlers' validation, checked under SpecCLI *)

NotFoundErrors ==
    {"CommandNotFoundError", "ConfigNotFoundError", "EnvironmentNotFoundError"}

\* the invocation had the right number of arguments and a file it could load
Loaded == Load(ret.preFile).err = NoError

\* the handler's own existence checks pass on the State it loaded
PassesOwnChecks ==
    /\ Loaded
    /\ \/ ret.op = "removeCommand" /\ Len(ret.args) = 1
                                   /\ CommandExists(ret.pre, ret.args[1])
       \/ ret.op = "removeConfig" /\ Len(ret.args) = 1
                                  /\ ConfigExists(ret.pre, ret.args[1])
       \/ ret.op = "removeEnvironment" /\ Len(ret.args) = 1
                                       /\ EnvironmentExists(ret.pre, ret.args[1])
       \/ ret.op = "addEnvironment" /\ Len(ret.args) = 1
                                    /\ CommandExists(ret.pre, ret.command)
                                    /\ ConfigExists(ret.pre, ret.config)

\* C25: when removeCommand, removeConfig, removeEnvironment or addEnvironment passes
\* its own existence checks and is not a dry run, the State method it calls does not
\* fail with a NotFound error.
C25_ValidationAgrees ==
    (PassesOwnChecks /\ ~ret.dryRun) => ret.err.type \notin NotFoundErrors

----------------------------------------------------------------------------
(* Properties of the active context, checked under Spec *)

\* `open` without --context, as a dry run, on the file that holds State s
ResolveActive(s) == openEmacs(FileOf(s), "", TRUE, TRUE)

\* C26: right after a successful AddEnvironment(n, cmd, cfg, d), resolving without an
\* override succeeds and gives the vector of Commands[cmd] and Configs[cfg].
C26_NewEnvironmentResolves ==
    (ret.op = "AddEnvironment" /\ ret.err = NoError) =>
        /\ CommandExists(appState, ret.command)
        /\ ConfigExists(appState, ret.config)
        /\ ResolveActive(appState).err = NoError
        /\ ResolveActive(appState).cmdLine =
               CommandLine(appState.Commands[ret.command],
                           appState.Configs[ret.config].InitDir)

\* C27: as long as the client only adds and removes, the active context is empty or
\* the name of an existing Environment.
C27_ContextNamesEnvironment ==
    appState.Context = "" \/ EnvironmentExists(appState, appState.Context)

----------------------------------------------------------------------------
(* Properties of dry runs, checked under SpecCLI *)

MutatingHandlers ==
    {"addCommand", "removeCommand", "addConfig", "removeConfig", "addEnvironment",
     "removeEnvironment", "setContext", "clearContext"}

\* C28: a dry run of a mutating handler leaves the state file and the repository cache
\* as they were: nothing is saved, cloned or evicted.
C28_DryRunChangesNothing ==
    (ret.op \in MutatingHandlers /\ ret.dryRun) =>
        /\ stateFile = ret.preFile
        /\ cache = ret.preCache

\* a dry run of `config add NAME URL` that would have cloned and saved
C28_Witness ==
    /\ ret.op = "addConfig"
    /\ ret.dryRun
    /\ ret.err = NoError
    /\ Len(ret.args) = 2
    /\ IsGitURL(ret.args[2])
    /\ ~ConfigExists(ret.pre, ret.args[1])
    /\ ret.args[1] \notin cache
    /\ stateFile = ret.preFile

\* the invocation ret records, made again on the same file and cache without dry run,
\* with the clone, the cache removal and the Save all succeeding
WithoutDryRun ==
    CASE ret.op = "addCommand" ->
             addCommand(ret.preFile, ret.preCache, ret.args, "", FALSE, "ok")
      [] ret.op = "removeCommand" ->
             removeCommand(ret.preFile, ret.preCache, ret.args, FALSE, "ok")
      [] ret.op = "addConfig" ->
             addConfig(ret.preFile, ret.preCache, ret.args, "", FALSE, TRUE, "ok")
      [] ret.op = "removeConfig" ->
             removeConfig(ret.preFile, ret.preCache, ret.args, FALSE, TRUE, "ok")
      [] ret.op = "addEnvironment" ->
             addEnvironment(ret.preFile, ret.preCache, ret.args, ret.command, ret.config,
                            "", FALSE, "ok")
      [] ret.op = "removeEnvironment" ->
             removeEnvironment(ret.preFile, ret.preCache, ret.args, FALSE, "ok")
      [] ret.op = "setContext" ->
             setContext(ret.preFile, ret.preCache, ret.args, FALSE, "ok")
      [] ret.op = "clearContext" ->
             clearContext(ret.preFile, ret.preCache, FALSE, "ok")

ValidationErrors ==
    {"CommandExistsError", "ConfigExistsError", "EnvironmentExistsError"}
        \cup NotFoundErrors

\* C29: a dry run with a valid argument count returns an error exactly when the same
\* invocation without dry run fails its validation (duplicate name; missing command,
\* configuration or environment).
C29_DryRunFaithful ==
    (/\ ret.op \in MutatingHandlers
     /\ ret.dryRun
     /\ Loaded
     /\ ret.err.type \notin {"UnexpectedNumArgsError", "MinimumNumArgsError"}) =>
        (ret.err # NoError <=> WithoutDryRun.err.type \in ValidationErrors)

----------------------------------------------------------------------------
(* Properties of the repository cache, checked under SpecCLI *)

\* C30: a `config add NAME URL` that fails because NAME is already a Configuration
\* leaves the cache as it was, and after a successful `config remove NAME` the saved
\* State has no Configuration NAME and the cache has no directory for NAME.
C30_CacheConsistent ==
    /\ (/\ ret.op = "addConfig"
        /\ Len(ret.args) = 2
        /\ ret.err = ConfigExistsError(ret.args[1])) => cache = ret.preCache
    /\ (ret.op = "removeConfig" /\ ret.err = NoError /\ ~ret.dryRun) =>
           /\ ~ConfigExists(Load(stateFile).state, ret.args[1])
           /\ ~IsCached(cache, ret.args[1])

====
